---- MODULE Spec2Model ----
(***************************************************************************)
(* Navigation-and-cache coordinator of the python-practice front end:      *)
(* router.js (loadSet, backToMainMenu, popstate, DOMContentLoaded),        *)
(* events.js (click delegation), state.js, render.js, dom.js and the       *)
(* random picker (random.js), and the judge request of the run button      *)
(* (buttons/run.js).  The index builder (tools/build-leetcode-index.mjs)   *)
(* is modelled for the unit it derives from a tag.                         *)
(*                                                                         *)
(* One action per event handler or per resumption of an async function at  *)
(* a network await.  Resumptions that only wait for already settled        *)
(* promises are microtasks: they run before any other event, which the     *)
(* guard NoMicrotask of the event actions expresses.                       *)
(***************************************************************************)
EXTENDS Integers, Sequences, FiniteSets, TLC

VARIABLES
  url,                \* the `set` query parameter of window.location
  hist,               \* the session history stack, entries [url, st]
  hpos,               \* index of the current history entry
  isLoading,          \* state.js isLoading
  loadTask,           \* the set id captured by the loadSet call in flight
  loadBy,             \* history: the kind of action that made that call
  currentDataId,      \* state.js currentDataId (mirrored on window)
  currentPracticeIdx, \* state.js currentPracticeIdx (mirrored on window)
  lastSetId,          \* state.js lastSetId
  lastData,           \* state.js lastData: the document, named by its set
  menu,               \* content of #mainMenu: Main or the set listed, or
                      \* NoMenuEl when the document has no such element
  backBtn,            \* #backToMenuBtn is displayed
  preview,            \* .preview is not hidden
  output,             \* text of #output, by kind
  shown,              \* the question shown in .textContent
  storage,            \* sessionStorage under the py.cur. prefix
  storageThrows,      \* sessionStorage access throws
  directTasks,        \* direct single-problem fetches in flight, per set
  setCache,           \* random picker: setCache, the promise and its state
  leetSetsMemo,       \* random picker: leetSetsMemo
  pickTasks,          \* pickAndRender calls suspended at loadAllSets
  diffOptions,        \* option values of the difficulty select
  run,                \* handleRun: phase ("idle", or the await it is
                      \* suspended at), ok (res.ok of the response), timer
                      \* (the abort timeout is armed), tick (the progress
                      \* interval is active), disabled (the run button),
                      \* req (data_id and practice_idx of the request)
  indexed,            \* index builder: tag and unit of the item it builds,
                      \* and the categories whose filter accepts the tag
  select,             \* the selects of the picker: cat (value of the
                      \* category select), value (of the difficulty select),
                      \* failed (the last rebuild was rejected), and data,
                      \* the problems the loaded sets hold
  chat,               \* AI chat: isSending, messages (the history), inflight
                      \* (requests not yet answered), typing (replies the
                      \* typewriter is rendering), sent (numbers of the user
                      \* messages sent so far) and payload (the history as
                      \* the last request carried it)
  fetchCount,         \* history: fetches issued by loadSetJSON, per set
  returned,           \* history: promises returned by loadSetJSON, per set
  latest,             \* history: the most recently initiated user action
  actions             \* history: number of user actions since the first load

vars == <<url, hist, hpos, isLoading, loadTask, loadBy, currentDataId,
          currentPracticeIdx, lastSetId, lastData, menu, backBtn, preview,
          output, shown, storage, storageThrows, directTasks, setCache,
          leetSetsMemo, pickTasks, diffOptions, run, indexed, select, chat,
          fetchCount, returned, latest, actions>>

----------------------------------------------------------------------------
(* Bounds *)

\* user actions (clicks, history traversals, reloads) explored per behaviour
MaxActions == 3

\* values of Math.random() explored: j / RandomSteps for j in 0..RandomSteps-1
RandomSteps == 4

\* the largest tag given to the index builder
MaxTag == 1099

----------------------------------------------------------------------------
(* Fixtures: the sets the page offers and the documents the server holds *)

NoSet == "null"

Main == "main"

\* document.querySelector(SELECTORS.mainMenu) finds no element
NoMenuEl == "absent"

MenuSets == {"algo1", "algo2"}

LeetSets == {"leetcode1", "leetcode2"}

SetIds == MenuSets \cup LeetSets

LeetOrder == <<"leetcode1", "leetcode2">>

Doc(id) ==
  CASE id = "algo1" -> << [tag |-> 101, difficult |-> "Easy"],
                          [tag |-> 102, difficult |-> "Easy"],
                          [tag |-> 103, difficult |-> "Easy"] >>
    [] id = "algo2" -> << [tag |-> 201, difficult |-> "Easy"] >>
    [] id = "leetcode1" -> << [tag |-> 512, difficult |-> "Easy"],
                              [tag |-> 530, difficult |-> "Medium"] >>
    [] id = "leetcode2" -> << [tag |-> 601, difficult |-> "Hard"] >>
    [] OTHER -> << >>

Outcomes == {"ok", "http_error", "bad_body", "net_error"}

\* resp.ok
RespOk(outcome) == outcome \in {"ok", "bad_body"}

\* data.coding_practice of the response, when there is an array
Served(id, outcome) == IF outcome = "ok" THEN Doc(id) ELSE << >>

\* a validation that tests resp.ok only
Accepted_NoLength(id, outcome) == RespOk(outcome)

\* the tests between fetch and the use of the document: resp.ok, then a
\* coding_practice array of length other than 0
Accepted(id, outcome) == RespOk(outcome) /\ Len(Served(id, outcome)) # 0

Categories == {500, 900}

Difficulties == {"none", "Hard"}

----------------------------------------------------------------------------
(* state.js *)

NaN == -1

Digits == <<"0", "1", "2", "3", "4", "5">>

\* String(idx)
StringOf(i) == IF i \in 0..(Len(Digits) - 1) THEN Digits[i + 1] ELSE "NaN"

\* Number(v): null -> 0, decimal text -> its value, anything else -> NaN
NumberOf(v) ==
  IF v = "null" THEN 0
  ELSE IF \E i \in 1..Len(Digits) : Digits[i] = v
       THEN (CHOOSE i \in 1..Len(Digits) : Digits[i] = v) - 1
       ELSE NaN

\* loadCur without the Number.isFinite test and without the catch
loadCur_Raw(st, throws, setId) == NumberOf(st[setId])

\* loadCur whose getItem is outside the try block
loadCur_NoCatch(st, throws, setId) ==
  LET n == NumberOf(st[setId]) IN IF n # NaN THEN n ELSE 0

\* loadCur that ignores the stored index
loadCur_Zero(st, throws, setId) == 0

loadCur(st, throws, setId) ==
  IF throws THEN 0
  ELSE LET n == NumberOf(st[setId]) IN IF n # NaN THEN n ELSE 0

\* saveCur that stores the number of the problem, counted from 1
saveCur_OneBased(st, throws, setId, idx) ==
  IF throws THEN st ELSE [st EXCEPT ![setId] = StringOf(idx + 1)]

\* saveCur whose key is the prefix alone: one value for every set
saveCur_NoId(st, throws, setId, idx) ==
  IF throws THEN st ELSE [id \in DOMAIN st |-> StringOf(idx)]

\* saveCur that stores nothing
saveCur_Dropped(st, throws, setId, idx) == st

saveCur(st, throws, setId, idx) ==
  IF throws THEN st ELSE [st EXCEPT ![setId] = StringOf(idx)]

getSetId(u) == u

----------------------------------------------------------------------------
(* render.js *)

Placeholder == [set |-> NoSet, idx |-> 0]

\* renderOneQuestion finds an item
HasItem(data, idx) == data # NoSet /\ idx \in 0..(Len(Doc(data)) - 1)

\* renderOneQuestion without the test of the item
renderOneQuestion_NoTest(data, idx, setId) ==
  [dataId |-> setId, practiceIdx |-> idx, shown |-> [set |-> data, idx |-> idx]]

\* NavigationState and view after renderOneQuestion(document, data, idx, setId)
renderOneQuestion(data, idx, setId) ==
  IF HasItem(data, idx)
  THEN [dataId |-> setId, practiceIdx |-> idx,
        shown |-> [set |-> data, idx |-> idx]]
  ELSE [dataId |-> currentDataId, practiceIdx |-> currentPracticeIdx,
        shown |-> shown]

----------------------------------------------------------------------------
(* history *)

Entry(u, s) == [url |-> u, st |-> s]

\* history.pushState: forward entries are dropped, the new one is current
pushState(h, p, u, s) == Append(SubSeq(h, 1, p), Entry(u, s))

----------------------------------------------------------------------------
(* History variable `latest`: the user action initiated last.  result is   *)
(* "pending" while the fetch that action started is in flight, "dropped"   *)
(* when the action started none although it asked for a set, "ok" or       *)
(* "failed" once its fetch settled, "done" for an action without a fetch.  *)
(* stale is the kind of the superseded action whose fetch settled last     *)
(* since then, "failed" if that fetch failed; sw is the problem switched   *)
(* to since then; expect, after a reload, is the problem that had been     *)
(* switched to just before it.                                             *)

NoSw == [set |-> NoSet, idx |-> 0]

Action(k, s, r) ==
  [kind |-> k, set |-> s, result |-> r, stale |-> "none", sw |-> NoSw,
   expect |-> NoSw]

LoadKinds == {"init", "enterSet", "popstate"}

\* the loadSet call in flight belongs to the latest user action
FreshLoad ==
  latest.kind \in LoadKinds /\ latest.result = "pending" /\ loadTask # NoSet

\* a direct fetch in flight for id belongs to the latest user action
FreshDirect(id) ==
  latest.kind = "direct" /\ latest.set = id /\ latest.result = "pending"

Settled(fresh, outcome, by) ==
  IF fresh
  THEN [latest EXCEPT !.result = IF outcome = "ok" THEN "ok" ELSE "failed"]
  ELSE [latest EXCEPT !.stale = IF outcome = "ok" THEN by ELSE "failed"]

\* a user action is counted against the bound
UserAction == actions < MaxActions /\ actions' = actions + 1

----------------------------------------------------------------------------
(* random.js: set list and promise cache *)

\* document.querySelectorAll('[data-id^="leetcode"]') filtered by the id test
collectAllLeetSets(m) ==
  IF m = Main THEN LeetOrder
  ELSE IF m \in LeetSets THEN [i \in 1..Len(Doc(m)) |-> m]
  ELSE << >>

SeqRange(s) == {s[i] : i \in 1..Len(s)}

\* no judge request is in flight
NoRequest == [set |-> NoSet, idx |-> 0]

\* no judge request: the button is enabled, no timer is armed
RunIdle ==
  [phase |-> "idle", ok |-> FALSE, timer |-> FALSE, tick |-> FALSE,
   disabled |-> FALSE, req |-> NoRequest]

\* the chat before the first message: no history, nothing in flight
ChatIdle ==
  [isSending |-> FALSE, messages |-> << >>, inflight |-> {}, typing |-> {},
   sent |-> 0, payload |-> << >>]

\* the four options of the select when no difficulty is known
DefaultOptions == <<"none", "Easy", "Medium", "Hard">>

\* the promise a loadAllSets call waits for has settled
Ready(t) ==
  \/ \E id \in SeqRange(t.sets) : setCache[id].st = "rejected"
  \/ \A id \in SeqRange(t.sets) : setCache[id].st = "fulfilled"

\* no suspended pickAndRender can resume: the microtask queue is empty
NoMicrotask == \A i \in 1..Len(pickTasks) : ~Ready(pickTasks[i])

----------------------------------------------------------------------------
(* router.js *)

EmptyState == "{}"

\* a loadSet that returns for a missing menu element with the flag set
loadSet_KeepsFlag(setId, pushUrl, u, h, p) ==
  IF isLoading
  THEN /\ url' = u /\ hist' = h /\ hpos' = p
       /\ UNCHANGED <<isLoading, loadTask, loadBy, output>>
  ELSE IF menu = NoMenuEl
  THEN /\ url' = u /\ hist' = h /\ hpos' = p
       /\ isLoading' = TRUE
       /\ UNCHANGED <<loadTask, loadBy, output>>
  ELSE /\ isLoading' = TRUE
       /\ loadTask' = setId
       /\ loadBy' = IF pushUrl THEN "enterSet" ELSE "popstate"
       /\ output' = "loading"
       /\ IF pushUrl
          THEN /\ url' = setId
               /\ hist' = pushState(h, p, setId, setId)
               /\ hpos' = p + 1
          ELSE /\ url' = u /\ hist' = h /\ hpos' = p

\* a loadSet without the getLoading() test
loadSet_Reentrant(setId, pushUrl, u, h, p) ==
  IF menu = NoMenuEl
  THEN /\ url' = u /\ hist' = h /\ hpos' = p
       /\ isLoading' = FALSE
       /\ UNCHANGED <<loadTask, loadBy, output>>
  ELSE /\ isLoading' = TRUE
       /\ loadTask' = setId
       /\ loadBy' = IF pushUrl THEN "enterSet" ELSE "popstate"
       /\ output' = "loading"
       /\ IF pushUrl
          THEN /\ url' = setId
               /\ hist' = pushState(h, p, setId, setId)
               /\ hpos' = p + 1
          ELSE /\ url' = u /\ hist' = h /\ hpos' = p

\* loadSet(setId, pushUrl) up to its fetch, called with the location (u, h, p)
loadSet(setId, pushUrl, u, h, p) ==
  IF isLoading
  THEN /\ url' = u /\ hist' = h /\ hpos' = p
       /\ UNCHANGED <<isLoading, loadTask, loadBy, output>>
  ELSE IF menu = NoMenuEl
  THEN /\ url' = u /\ hist' = h /\ hpos' = p
       /\ isLoading' = FALSE
       /\ UNCHANGED <<loadTask, loadBy, output>>
  ELSE /\ isLoading' = TRUE
       /\ loadTask' = setId
       /\ loadBy' = IF pushUrl THEN "enterSet" ELSE "popstate"
       /\ output' = "loading"
       /\ IF pushUrl
          THEN /\ url' = setId
               /\ hist' = pushState(h, p, setId, setId)
               /\ hpos' = p + 1
          ELSE /\ url' = u /\ hist' = h /\ hpos' = p

\* result kind of a loadSet call
Started == IF isLoading \/ menu = NoMenuEl THEN "dropped" ELSE "pending"

\* backToMainMenu(evt), called with the location (u, h, p)
backToMainMenu(h, p) ==
  /\ menu' = IF menu = NoMenuEl THEN NoMenuEl ELSE Main
  /\ shown' = Placeholder
  /\ output' = ""
  /\ backBtn' = FALSE
  /\ preview' = FALSE
  /\ url' = NoSet
  /\ hist' = pushState(h, p, NoSet, EmptyState)
  /\ hpos' = p + 1

NoPromise == [st |-> "absent", p |-> 0]

\* a loadSet that does not record what it loaded
setLastLoaded_Skipped(setId, data) == UNCHANGED <<lastSetId, lastData>>

\* setLastLoaded(setId, data)
setLastLoaded(setId, data) == lastSetId' = setId /\ lastData' = data

\* a loadSet whose finally block is missing
loadSetFinally_Missing == isLoading' = isLoading

\* finally { setLoading(false) }
loadSetFinally == isLoading' = FALSE

\* the rest of loadSet, once the fetch has settled
LoadSettle(outcome) ==
  /\ loadTask # NoSet
  /\ NoMicrotask
  /\ IF Accepted(loadTask, outcome)
     THEN LET cur == loadCur(storage, storageThrows, loadTask)
              r == renderOneQuestion(loadTask, cur, loadTask)
          IN /\ menu' = loadTask
             /\ currentDataId' = r.dataId
             /\ currentPracticeIdx' = r.practiceIdx
             /\ shown' = r.shown
             /\ backBtn' = TRUE
             /\ preview' = TRUE
             /\ output' = ""
             /\ setLastLoaded(loadTask, loadTask)
     ELSE /\ output' = "load_failed"
          /\ UNCHANGED <<menu, currentDataId, currentPracticeIdx, shown,
                         backBtn, preview, lastSetId, lastData>>
  /\ loadSetFinally
  /\ loadTask' = NoSet
  /\ loadBy' = "none"
  /\ latest' = Settled(FreshLoad, outcome, loadBy)
  /\ UNCHANGED <<actions, url, hist, hpos, storage, storageThrows,
                 directTasks, setCache, leetSetsMemo, pickTasks, diffOptions,
                 fetchCount, returned>>
  /\ UNCHANGED <<run, indexed, select, chat>>

\* the popstate listener, after the browser moved to entry hpos + d
Popstate(d) ==
  /\ NoMicrotask
  /\ UserAction
  /\ hpos + d \in 1..Len(hist)
  /\ LET p == hpos + d
         set == getSetId(hist[p].url)
     IN IF set # NoSet
        THEN /\ loadSet(set, FALSE, set, hist, p)
             /\ backBtn' = TRUE
             /\ preview' = TRUE
             /\ latest' = Action("popstate", set, Started)
             /\ UNCHANGED <<menu, shown>>
        ELSE /\ backToMainMenu(hist, p)
             /\ latest' = Action("popstate", NoSet, "done")
             /\ UNCHANGED <<isLoading, loadTask, loadBy>>
  /\ UNCHANGED <<currentDataId, currentPracticeIdx, lastSetId, lastData,
                 storage, storageThrows, directTasks, setCache, leetSetsMemo,
                 pickTasks, diffOptions, fetchCount, returned>>
  /\ UNCHANGED <<run, indexed, select, chat>>

\* a page load with location u: module state is fresh, then the
\* DOMContentLoaded listener runs
PageLoad(u) ==
  /\ isLoading' = (u # NoSet /\ menu # NoMenuEl)
  /\ loadTask' = IF menu # NoMenuEl THEN u ELSE NoSet
  /\ loadBy' = IF u # NoSet /\ menu # NoMenuEl THEN "init" ELSE "none"
  /\ currentDataId' = NoSet
  /\ currentPracticeIdx' = 0
  /\ lastSetId' = NoSet
  /\ lastData' = NoSet
  /\ menu' = IF menu = NoMenuEl THEN NoMenuEl ELSE Main
  /\ backBtn' = (u # NoSet)
  /\ preview' = (u # NoSet)
  /\ output' = IF u # NoSet /\ menu # NoMenuEl THEN "loading" ELSE ""
  /\ shown' = Placeholder
  /\ directTasks' = [id \in LeetSets |-> 0]
  /\ setCache' = [id \in LeetSets |-> NoPromise]
  /\ leetSetsMemo' = << >>
  /\ pickTasks' = << >>
  /\ diffOptions' = DefaultOptions
  /\ run' = RunIdle

Reload ==
  /\ NoMicrotask
  /\ UserAction
  /\ PageLoad(url)
  /\ latest' = [Action("init", url,
                        IF url = NoSet THEN "done"
                        ELSE IF menu = NoMenuEl THEN "dropped" ELSE "pending")
                  EXCEPT !.expect = IF url # NoSet /\ latest.sw.set = url
                                    THEN latest.sw ELSE NoSw]
  /\ fetchCount' = [id \in LeetSets |-> 0]
  /\ returned' = [id \in LeetSets |-> {}]
  /\ UNCHANGED <<url, hist, hpos, storage, storageThrows>>
  /\ select' = [select EXCEPT !.value = "none", !.failed = FALSE]
  /\ chat' = ChatIdle
  /\ UNCHANGED indexed

----------------------------------------------------------------------------
(* events.js *)

\* click on #backToMenuBtn
BackClick ==
  /\ NoMicrotask
  /\ UserAction
  /\ menu # NoMenuEl
  /\ backBtn
  /\ backToMainMenu(hist, hpos)
  /\ latest' = Action("back", NoSet, "done")
  /\ UNCHANGED <<isLoading, loadTask, loadBy, currentDataId,
                 currentPracticeIdx, lastSetId, lastData, storage,
                 storageThrows, directTasks, setCache, leetSetsMemo,
                 pickTasks, diffOptions, fetchCount, returned>>
  /\ UNCHANGED <<run, indexed, select, chat>>

\* click on a leetcode item of the main menu: the fetch is started
DirectClick(id) ==
  /\ NoMicrotask
  /\ UserAction
  /\ menu = Main
  /\ id \in LeetSets
  /\ output' = "loading"
  /\ directTasks' = [directTasks EXCEPT ![id] = @ + 1]
  /\ latest' = Action("direct", id, "pending")
  /\ UNCHANGED <<url, hist, hpos, isLoading, loadTask, loadBy, currentDataId,
                 currentPracticeIdx, lastSetId, lastData, menu, backBtn,
                 preview, shown, storage, storageThrows, setCache,
                 leetSetsMemo, pickTasks, diffOptions, fetchCount, returned>>
  /\ UNCHANGED <<run, indexed, select, chat>>

\* the rest of the direct open, once its fetch has settled
DirectSettle(id, outcome, fresh) ==
  /\ NoMicrotask
  /\ directTasks[id] > 0
  /\ IF fresh THEN FreshDirect(id)
     ELSE directTasks[id] > (IF FreshDirect(id) THEN 1 ELSE 0)
  /\ directTasks' = [directTasks EXCEPT ![id] = @ - 1]
  /\ IF Accepted(id, outcome)
     THEN LET cur == loadCur(storage, storageThrows, id)
              r == renderOneQuestion(id, cur, id)
          IN /\ currentDataId' = r.dataId
             /\ currentPracticeIdx' = r.practiceIdx
             /\ shown' = r.shown
             /\ backBtn' = FALSE
             /\ preview' = TRUE
             /\ output' = ""
     ELSE /\ output' = "load_failed"
          /\ UNCHANGED <<currentDataId, currentPracticeIdx, shown, backBtn,
                         preview>>
  /\ latest' = Settled(fresh, outcome, "direct")
  /\ UNCHANGED <<actions, url, hist, hpos, isLoading, loadTask, loadBy,
                 lastSetId, lastData, menu, storage, storageThrows, setCache,
                 leetSetsMemo, pickTasks, diffOptions, fetchCount, returned>>
  /\ UNCHANGED <<run, indexed, select, chat>>

\* click on a set item of the main menu
EnterSetClick(id) ==
  /\ NoMicrotask
  /\ UserAction
  /\ menu = Main
  /\ id \in MenuSets
  /\ loadSet(id, TRUE, url, hist, hpos)
  /\ latest' = Action("enterSet", id, Started)
  /\ UNCHANGED <<currentDataId, currentPracticeIdx, lastSetId, lastData,
                 menu, backBtn, preview, shown, storage, storageThrows,
                 directTasks, setCache, leetSetsMemo, pickTasks, diffOptions,
                 fetchCount, returned>>
  /\ UNCHANGED <<run, indexed, select, chat>>

\* click on item i of the sub-menu
SwitchClick(i) ==
  /\ NoMicrotask
  /\ UserAction
  /\ menu \in SetIds
  /\ i \in 0..(Len(Doc(menu)) - 1)
  /\ LET curSet == IF menu # NoSet THEN menu ELSE lastSetId
         curData == lastData
     IN /\ curSet # NoSet
        /\ curData # NoSet
        /\ LET r == renderOneQuestion(curData, i, curSet)
           IN /\ currentDataId' = r.dataId
              /\ currentPracticeIdx' = r.practiceIdx
              /\ shown' = r.shown
        /\ storage' = saveCur(storage, storageThrows, curSet, i)
        /\ latest' = [latest EXCEPT !.sw = [set |-> curSet, idx |-> i]]
  /\ UNCHANGED <<url, hist, hpos, isLoading, loadTask, loadBy, lastSetId,
                 lastData, menu, backBtn, preview, output, storageThrows,
                 directTasks, setCache, leetSetsMemo, pickTasks, diffOptions,
                 fetchCount, returned>>
  /\ UNCHANGED <<run, indexed, select, chat>>

----------------------------------------------------------------------------
(* random.js: the picker *)

Lower(d) ==
  CASE d = "Easy" -> "easy" [] d = "Medium" -> "medium" [] d = "Hard" -> "hard"
    [] d = "Expert" -> "expert"
    [] OTHER -> d

\* d[0].toUpperCase() + d.slice(1)
Cap(d) ==
  CASE d = "easy" -> "Easy" [] d = "medium" -> "Medium" [] d = "hard" -> "Hard"
    [] OTHER -> d

\* Math.floor(Number(q.tag) / 100) * 100
Bucket(tag) == (tag \div 100) * 100

\* loadSetJSON without the setCache.has test
loadSetJSON_NoHas(r, id) ==
  [cache |-> [r.cache EXCEPT ![id] =
                [st |-> "pending", p |-> r.fetches[id] + 1]],
   fetches |-> [r.fetches EXCEPT ![id] = @ + 1],
   returned |-> [r.returned EXCEPT ![id] = @ \cup {r.fetches[id] + 1}]]

\* loadSetJSON(setId, url) on r = [cache, fetches, returned]: a missing
\* entry gets a new promise, whose body issues the fetch; the promise of the
\* entry is returned
loadSetJSON(r, id) ==
  IF r.cache[id].st = "absent"
  THEN [cache |-> [r.cache EXCEPT ![id] =
                     [st |-> "pending", p |-> r.fetches[id] + 1]],
        fetches |-> [r.fetches EXCEPT ![id] = @ + 1],
        returned |-> [r.returned EXCEPT ![id] = @ \cup {r.fetches[id] + 1}]]
  ELSE [r EXCEPT !.returned[id] = @ \cup {r.cache[id].p}]

\* loadAllSets that loads what the scan finds and never the memo
SetsToLoad_NoMemo(m, memo) == collectAllLeetSets(m)

\* the sets loadAllSets loads, given the menu and the memo
SetsToLoad(m, memo) ==
  IF collectAllLeetSets(m) # << >> THEN collectAllLeetSets(m) ELSE memo

\* the cache after loadAllSets called loadSetJSON for every set of the list
RECURSIVE LoadEach(_, _)
LoadEach(r, sets) ==
  IF sets = << >> THEN r
  ELSE LoadEach(loadSetJSON(r, Head(sets)), Tail(sets))

\* loadAllSets(): the memo and the cache after the call
loadAllSets(sets) ==
  LET r == LoadEach([cache |-> setCache, fetches |-> fetchCount,
                     returned |-> returned], sets)
  IN /\ leetSetsMemo' = sets
     /\ setCache' = r.cache
     /\ fetchCount' = r.fetches
     /\ returned' = r.returned

\* all items of the loaded sets, in pool order, with their set and index
RECURSIVE Items(_)
Items(sets) ==
  IF sets = << >> THEN << >>
  ELSE [i \in 1..Len(Doc(Head(sets))) |->
          [setId |-> Head(sets), idx |-> i - 1, q |-> Doc(Head(sets))[i]]]
       \o Items(Tail(sets))

\* getAvailableDiffsForUnit(categoryId), once everything has loaded
getAvailableDiffsForUnit(cat, sets) ==
  {Lower(Items(sets)[i].q.difficult) :
     i \in {j \in 1..Len(Items(sets)) : Bucket(Items(sets)[j].q.tag) = cat}}

\* the fixed order easy, medium, hard filtered by the difficulties present
Present(diffs) ==
  LET Keep(d) == d \in diffs IN SelectSeq(<<"easy", "medium", "hard">>, Keep)

\* a rebuild that restores the value read before it, whatever is present
rebuildDifficultySelect_KeepPrev(diffs, prevValueRaw) ==
  [options |-> IF diffs = {} THEN DefaultOptions
               ELSE IF Cardinality(diffs) >= 2
               THEN <<"none">> \o [i \in 1..Len(Present(diffs)) |->
                                     Cap(Present(diffs)[i])]
               ELSE [i \in 1..Len(Present(diffs)) |-> Cap(Present(diffs)[i])],
   value |-> prevValueRaw]

\* rebuildDifficultySelect: options and value of the select afterwards
rebuildDifficultySelect(diffs, prevValueRaw) ==
  LET prevValueLc == Lower(prevValueRaw)
      present == Present(diffs)
      opts == [i \in 1..Len(present) |-> Cap(present[i])]
  IN IF diffs = {}
     THEN [options |-> DefaultOptions,
           value |-> IF prevValueLc \in {"none", "easy", "medium", "hard"}
                     THEN prevValueRaw ELSE "none"]
     ELSE IF Len(present) >= 2
     THEN [options |-> <<"none">> \o opts,
           value |-> IF prevValueLc \in SeqRange(present)
                     THEN Cap(prevValueLc)
                     ELSE IF prevValueLc = "none" THEN "none"
                     ELSE Cap(present[1])]
     ELSE IF Len(present) = 1
     THEN [options |-> opts, value |-> Cap(present[1])]
     ELSE [options |-> << >>, value |-> ""]

\* labels of difficulty in the data: the three the select has a text for,
\* and one it has none for
Labels == {"Easy", "Medium", "Hard", "Expert"}

\* the data the picker has loaded: at most two problems, of category 500
\* or 600
DataLists ==
  LET Problems == [tag : {512, 601}, difficult : Labels]
  IN {<< >>} \cup {<<a>> : a \in Problems}
             \cup {<<a, b>> : a \in Problems, b \in Problems}

\* getAvailableDiffsForUnit(categoryId) over the problems of data
DiffsOfData(cat, data) ==
  {Lower(data[i].difficult) :
     i \in {j \in 1..Len(data) : Bucket(data[j].tag) = cat}}

\* rebuildDifficultySelect is rejected: with difficulties present but none
\* of easy, medium, hard among them, present[0] is undefined and only[0]
\* throws, after the options were removed
rebuildThrows(diffs) == diffs # {} /\ Present(diffs) = << >>

\* the change listener of the category select: the difficulty select is
\* rebuilt for category c; a rejection is reported in #output
ChangeCategory(c) ==
  /\ NoMicrotask
  /\ LET diffs == DiffsOfData(c, select.data)
         prevValueRaw == IF select.value = "" THEN "none" ELSE select.value
         rebuilt == rebuildDifficultySelect(diffs, prevValueRaw)
     IN /\ diffOptions' = rebuilt.options
        /\ select' = [select EXCEPT !.cat = c, !.value = rebuilt.value,
                                    !.failed = rebuildThrows(diffs)]
        /\ output' = IF rebuildThrows(diffs) THEN "rebuild_failed"
                     ELSE output
  /\ UNCHANGED <<url, hist, hpos, isLoading, loadTask, loadBy, currentDataId,
                 currentPracticeIdx, lastSetId, lastData, menu, backBtn,
                 preview, shown, storage, storageThrows, directTasks,
                 setCache, leetSetsMemo, pickTasks, fetchCount, returned,
                 latest, actions>>
  /\ UNCHANGED <<run, indexed, chat>>

\* the user chooses option v of the difficulty select
ChooseDifficulty(v) ==
  /\ NoMicrotask
  /\ v \in SeqRange(diffOptions)
  /\ select' = [select EXCEPT !.value = v]
  /\ UNCHANGED <<url, hist, hpos, isLoading, loadTask, loadBy, currentDataId,
                 currentPracticeIdx, lastSetId, lastData, menu, backBtn,
                 preview, output, shown, storage, storageThrows, directTasks,
                 setCache, leetSetsMemo, pickTasks, diffOptions, fetchCount,
                 returned, latest, actions>>
  /\ UNCHANGED <<run, indexed, chat>>

\* makeFilter that tests the category only
makeFilter_CatOnly(cat, difficulty, q) == Bucket(q.tag) = cat

\* makeFilter(categoryId, difficulty)
makeFilter(cat, difficulty, q) ==
  /\ Bucket(q.tag) = cat
  /\ Lower(difficulty) = "none" \/ Lower(q.difficult) = Lower(difficulty)

\* a pool that falls back to every loaded problem
Pool_AnyCategory(cat, fd, sets) == Items(sets)

\* the first scan of pickAndRender: the items the filter accepts
FirstPool(cat, fd, sets) ==
  LET Keep(c) == makeFilter(cat, fd, c.q) IN SelectSeq(Items(sets), Keep)

\* a relaxation that scans the category whatever the first scan found
Relax_Always(pool, cat, fd, sets) ==
  LET InCat(c) == Bucket(c.q.tag) = cat
  IN IF Lower(fd) = "none"
     THEN pool \o SelectSeq(Items(sets), InCat)
     ELSE pool

\* the relaxation: with an empty pool and difficulty "none", the items of
\* the category are pushed onto the pool
Relax(pool, cat, fd, sets) ==
  LET InCat(c) == Bucket(c.q.tag) = cat
  IN IF pool = << >> /\ Lower(fd) = "none"
     THEN pool \o SelectSeq(Items(sets), InCat)
     ELSE pool

\* the candidate pool of pickAndRender, relaxation included
Pool(cat, fd, sets) == Relax(FirstPool(cat, fd, sets), cat, fd, sets)

Remove(s, i) == SubSeq(s, 1, i - 1) \o SubSeq(s, i + 1, Len(s))

\* an index that is always the first
PickIndex_First(j, len) == 0

\* Math.floor(Math.random() * len), for Math.random() = j / RandomSteps
PickIndex(j, len) == (j * len) \div RandomSteps

\* the pickAndRender call resumed first: the oldest one that can
FirstReady ==
  CHOOSE i \in 1..Len(pickTasks) :
    Ready(pickTasks[i]) /\ \A j \in 1..(i - 1) : ~Ready(pickTasks[j])

\* the pickAndRender call at position i belongs to the latest user action
FreshPick(i) ==
  latest.kind = "pick" /\ latest.result = "pending" /\ i = Len(pickTasks)

\* click on the submit button of the picker, up to the first await
PickClick(cat, diff) ==
  /\ NoMicrotask
  /\ UserAction
  /\ diff \in SeqRange(diffOptions)
  /\ output' = "picking"
  /\ LET sets == SetsToLoad(menu, leetSetsMemo)
     IN /\ loadAllSets(sets)
        /\ pickTasks' = Append(pickTasks,
             [cat |-> cat, diff |-> diff, sets |-> sets, stage |-> 1])
  /\ latest' = Action("pick", NoSet, "pending")
  /\ UNCHANGED <<url, hist, hpos, isLoading, loadTask, loadBy, currentDataId,
                 currentPracticeIdx, lastSetId, lastData, menu, backBtn,
                 preview, shown, storage, storageThrows, directTasks,
                 diffOptions>>
  /\ UNCHANGED <<run, indexed, select, chat>>

\* the fetch of loadSetJSON settles: the cached promise settles with it
CacheSettle(id, outcome) ==
  /\ NoMicrotask
  /\ id \in LeetSets
  /\ setCache[id].st = "pending"
  /\ setCache' = [setCache EXCEPT ![id].st =
                    IF Accepted(id, outcome) THEN "fulfilled"
                    ELSE "rejected"]
  /\ UNCHANGED <<actions, url, hist, hpos, isLoading, loadTask, loadBy,
                 currentDataId,
                 currentPracticeIdx, lastSetId, lastData, menu, backBtn,
                 preview, output, shown, storage, storageThrows, directTasks,
                 leetSetsMemo, pickTasks, diffOptions, fetchCount, returned,
                 latest>>
  /\ UNCHANGED <<run, indexed, select, chat>>

\* pickAndRender resumes after rebuildDifficultySelect and calls loadAllSets
PickRebuilt ==
  /\ ~NoMicrotask
  /\ LET i == FirstReady
         t == pickTasks[i]
         loaded == t.sets # << >> /\
                   \A id \in SeqRange(t.sets) : setCache[id].st = "fulfilled"
         diffs == IF loaded THEN getAvailableDiffsForUnit(t.cat, t.sets)
                  ELSE {}
         rebuilt == rebuildDifficultySelect(diffs, t.diff)
         fd == rebuilt.value
         sets == SetsToLoad(menu, leetSetsMemo)
     IN /\ t.stage = 1
        /\ diffOptions' = rebuilt.options
        /\ loadAllSets(sets)
        /\ IF sets = << >>
           THEN /\ output' = "no_list"
                /\ pickTasks' = Remove(pickTasks, i)
                /\ latest' = Settled(FreshPick(i), "no_list", "pick")
           ELSE /\ pickTasks' = [pickTasks EXCEPT ![i] =
                     [cat |-> t.cat, diff |-> fd, sets |-> sets, stage |-> 2]]
                /\ UNCHANGED <<output, latest>>
  /\ UNCHANGED <<actions, url, hist, hpos, isLoading, loadTask, loadBy,
                 currentDataId,
                 currentPracticeIdx, lastSetId, lastData, menu, backBtn,
                 preview, shown, storage, storageThrows, directTasks>>
  /\ UNCHANGED <<run, indexed, select, chat>>

\* a pickAndRender that goes on to the view update after its message
PickStops_ShowsView ==
  /\ backBtn' = FALSE
  /\ preview' = TRUE
  /\ UNCHANGED <<currentDataId, currentPracticeIdx, shown, storage>>

\* pickAndRender returns after its message: nothing is rendered or saved
PickStops ==
  UNCHANGED <<currentDataId, currentPracticeIdx, shown, storage, backBtn,
              preview>>

\* pickAndRender resumes after loadAllSets: pool, pick, render
PickSettle ==
  /\ ~NoMicrotask
  /\ LET i == FirstReady
         t == pickTasks[i]
         loaded == \A id \in SeqRange(t.sets) : setCache[id].st = "fulfilled"
         pool == Pool(t.cat, t.diff, t.sets)
     IN /\ t.stage = 2
        /\ pickTasks' = Remove(pickTasks, i)
        /\ IF ~loaded
           THEN /\ output' = "pick_failed"
                /\ latest' = Settled(FreshPick(i), "pick_failed", "pick")
                /\ PickStops
           ELSE IF pool = << >>
           THEN /\ output' = "no_candidates"
                /\ latest' = Settled(FreshPick(i), "no_candidates", "pick")
                /\ PickStops
           ELSE \E k \in {PickIndex(j, Len(pool)) : j \in 0..(RandomSteps - 1)} :
                  LET picked == pool[k + 1]
                      r == renderOneQuestion(picked.setId, picked.idx,
                                             picked.setId)
                  IN /\ currentDataId' = r.dataId
                     /\ currentPracticeIdx' = r.practiceIdx
                     /\ shown' = r.shown
                     /\ storage' = saveCur(storage, storageThrows,
                                           picked.setId, picked.idx)
                     /\ backBtn' = FALSE
                     /\ preview' = TRUE
                     /\ output' = ""
                     /\ latest' = [Settled(FreshPick(i), "ok", "pick")
                                     EXCEPT !.set =
                                       IF FreshPick(i) THEN picked.setId
                                       ELSE @]
  /\ UNCHANGED <<actions, url, hist, hpos, isLoading, loadTask, loadBy,
                 lastSetId, lastData, menu, storageThrows, directTasks,
                 setCache, leetSetsMemo, diffOptions, fetchCount, returned>>
  /\ UNCHANGED <<run, indexed, select, chat>>

----------------------------------------------------------------------------
(* buttons/run.js *)

\* the navigation and the picker are left alone
PageKeeps ==
  UNCHANGED <<url, hist, hpos, isLoading, loadTask, loadBy, currentDataId,
              currentPracticeIdx, lastSetId, lastData, menu, backBtn, preview,
              shown, storage, storageThrows, directTasks, setCache,
              leetSetsMemo, pickTasks, diffOptions, fetchCount, returned,
              latest>>

\* what handleRun leaves alone: everything but #output, the run button and
\* its request
RunKeeps == PageKeeps /\ UNCHANGED <<indexed, select, chat>>

\* window.currentDataId || getSetId()
RunDataId == IF currentDataId # NoSet THEN currentDataId ELSE getSetId(url)

\* window.currentPracticeIdx ?? loadCur(dataId): the window property is
\* undefined until setCurrentQuestion has set it, with window.currentDataId
RunPracticeIdx ==
  IF currentDataId # NoSet THEN currentPracticeIdx
  ELSE loadCur(storage, storageThrows, RunDataId)

\* finally { clearTimeout(timeout); clearInterval(tick); setRunningUI(false) }
runFinally ==
  run' = [run EXCEPT !.phase = "idle", !.timer = FALSE, !.tick = FALSE,
                     !.disabled = FALSE, !.req = NoRequest]

\* click on the run button: handleRun up to `await fetch`
RunClick ==
  /\ NoMicrotask
  /\ UserAction
  /\ ~run.disabled
  /\ IF RunDataId = NoSet
     THEN /\ output' = "select_first"
          /\ UNCHANGED run
     ELSE /\ output' = "judging"
          /\ run' = [phase |-> "fetch", ok |-> FALSE, timer |-> TRUE,
                     tick |-> TRUE, disabled |-> TRUE,
                     req |-> [set |-> RunDataId, idx |-> RunPracticeIdx]]
  /\ RunKeeps

\* the callback of the progress interval
RunTick ==
  /\ NoMicrotask
  /\ run.tick
  /\ output' = "judging"
  /\ UNCHANGED run
  /\ UNCHANGED actions
  /\ RunKeeps

\* the response arrives: handleRun resumes after fetch, up to res.text()
RunHeaders(ok) ==
  /\ NoMicrotask
  /\ run.phase = "fetch"
  /\ run' = [run EXCEPT !.phase = "text", !.ok = ok]
  /\ UNCHANGED <<output, actions>>
  /\ RunKeeps

RunBodies == {"correct", "suggestions", "not_json"}

\* the body has been read: the rest of the try block, then finally
RunBody(body) ==
  /\ NoMicrotask
  /\ run.phase = "text"
  /\ output' = IF ~run.ok THEN "judge_error"
               ELSE IF body = "not_json" THEN "judge_not_json"
               ELSE IF body = "correct" THEN "judge_passed"
               ELSE "judge_suggestions"
  /\ runFinally
  /\ UNCHANGED actions
  /\ RunKeeps

\* fetch or res.text() rejects for a reason other than the abort
RunFail ==
  /\ NoMicrotask
  /\ run.phase \in {"fetch", "text"}
  /\ output' = "judge_exception"
  /\ runFinally
  /\ UNCHANGED actions
  /\ RunKeeps

\* a timeout callback that aborts nothing
RunTimeout_NoAbort ==
  /\ NoMicrotask
  /\ run.timer
  /\ run' = [run EXCEPT !.timer = FALSE]
  /\ UNCHANGED <<output, actions>>
  /\ RunKeeps

\* the timeout fires: controller.abort() rejects the pending await with an
\* AbortError, and handleRun runs its catch and finally blocks
RunTimeout ==
  /\ NoMicrotask
  /\ run.timer
  /\ output' = "judge_timeout"
  /\ runFinally
  /\ UNCHANGED actions
  /\ RunKeeps

----------------------------------------------------------------------------
(* tools/build-leetcode-index.mjs *)

\* tag = null, unit = null
NoTag == -1

NoUnit == -1

\* a unit that divides by 10
unitFromTagDiv10_ByTen(tag) == tag \div 10

\* unitFromTagDiv10(tag) = Math.floor(tag / 100)
unitFromTagDiv10(tag) == tag \div 100

\* the builder derives the unit of the item from its tag
BuildItem ==
  /\ indexed.tag # NoTag
  /\ indexed.unit = NoUnit
  /\ indexed' = [indexed EXCEPT !.unit = unitFromTagDiv10(indexed.tag)]
  /\ UNCHANGED actions
  /\ UNCHANGED <<run, select, chat>>
  /\ UNCHANGED output
  /\ PageKeeps

\* values of the category select: the hundreds up to MaxTag
CategoryValues == {100 * k : k \in 0..(MaxTag \div 100)}

\* the filters of the picker, one per category, applied to a problem that
\* carries the tag
FilterTag ==
  /\ indexed.tag # NoTag
  /\ indexed.accepted = {}
  /\ indexed' =
       [indexed EXCEPT !.accepted =
          {c \in CategoryValues :
             makeFilter(c, "none",
                        [tag |-> indexed.tag, difficult |-> "Easy"])}]
  /\ UNCHANGED actions
  /\ UNCHANGED <<run, select, chat>>
  /\ UNCHANGED output
  /\ PageKeeps

----------------------------------------------------------------------------
(* ai-chat *)

\* messages.length > 30 in pushMsg
HistoryCap == 30

\* pushMsg(role, content): content is the number of the user message it is
\* or answers, 0 for the system prompt and for the mode payload
pushMsg(msgs, role, n) ==
  LET m == Append(msgs, [role |-> role, n |-> n])
  IN IF Len(m) > HistoryCap THEN Tail(m) ELSE m

\* messages.some((m) => m.role === role), for the system prompt and the mode
HasMsg(msgs, role, n) ==
  \E i \in 1..Len(msgs) : msgs[i].role = role /\ msgs[i].n = n

\* what the chat leaves alone: the practice page
ChatKeeps == PageKeeps /\ UNCHANGED <<output, run, indexed, select>>

\* kinds of answer of the backend: a text the typewriter renders, an empty
\* text, a failure of the request
ReplyKinds == {"text", "empty", "error"}

\* click on the send button with a text that is no mode number and no
\* control letter: handleChat up to `await chatToBackend`
ChatSend ==
  /\ NoMicrotask
  /\ UserAction
  /\ ~chat.isSending
  /\ LET n == chat.sent + 1
         m1 == IF HasMsg(chat.messages, "system", 0) THEN chat.messages
               ELSE pushMsg(chat.messages, "system", 0)
         m2 == IF HasMsg(m1, "user", 0) THEN m1 ELSE pushMsg(m1, "user", 0)
         m3 == pushMsg(m2, "user", n)
     IN chat' = [chat EXCEPT !.isSending = TRUE, !.messages = m3,
                             !.inflight = @ \cup {n}, !.sent = n,
                             !.payload = m3]
  /\ UNCHANGED latest
  /\ ChatKeeps

\* the request of message n settles: the rest of handleChat.  A text is
\* handed to the typewriter, whose last tick calls finish; for an empty
\* text the first tick is the last and finish runs at once.
ChatReply(n, kind) ==
  /\ NoMicrotask
  /\ n \in chat.inflight
  /\ chat' = [chat EXCEPT
               !.isSending = FALSE,
               !.inflight = @ \ {n},
               !.typing = IF kind = "text" THEN @ \cup {n} ELSE @,
               !.messages = IF kind = "empty"
                            THEN pushMsg(@, "assistant", n) ELSE @]
  /\ UNCHANGED <<latest, actions>>
  /\ ChatKeeps

\* the last tick of the typewriter for the reply to message n: finish()
ChatTyped(n) ==
  /\ NoMicrotask
  /\ n \in chat.typing
  /\ chat' = [chat EXCEPT !.typing = @ \ {n},
                          !.messages = pushMsg(@, "assistant", n)]
  /\ UNCHANGED <<latest, actions>>
  /\ ChatKeeps

----------------------------------------------------------------------------
(* Specification *)

UrlIds == MenuSets \cup {NoSet}

\* the page after its first load, but for sessionStorage, in a document
\* whose #mainMenu is m
BootPage(m) ==
  /\ url \in UrlIds
  /\ hist = <<Entry(url, NoSet)>>
  /\ hpos = 1
  /\ isLoading = (url # NoSet /\ m # NoMenuEl)
  /\ loadTask = (IF m # NoMenuEl THEN url ELSE NoSet)
  /\ loadBy = (IF url # NoSet /\ m # NoMenuEl THEN "init" ELSE "none")
  /\ currentDataId = NoSet
  /\ currentPracticeIdx = 0
  /\ lastSetId = NoSet
  /\ lastData = NoSet
  /\ menu = m
  /\ backBtn = (url # NoSet)
  /\ preview = (url # NoSet)
  /\ output = (IF url # NoSet /\ m # NoMenuEl THEN "loading" ELSE "")
  /\ shown = Placeholder
  /\ directTasks = [id \in LeetSets |-> 0]
  /\ setCache = [id \in LeetSets |-> NoPromise]
  /\ leetSetsMemo = << >>
  /\ pickTasks = << >>
  /\ diffOptions = DefaultOptions
  /\ run = RunIdle
  /\ chat = ChatIdle
  /\ fetchCount = [id \in LeetSets |-> 0]
  /\ returned = [id \in LeetSets |-> {}]
  /\ latest = Action("init", url,
                     IF url = NoSet THEN "done"
                     ELSE IF m = NoMenuEl THEN "dropped" ELSE "pending")
  /\ actions = 0

\* the page after its first load, but for sessionStorage
Boot == BootPage(Main)

\* the index builder has built nothing; the selects of the picker are as
\* the page's HTML sets them, and the picker has loaded nothing
ToolIdle ==
  /\ indexed = [tag |-> NoTag, unit |-> NoUnit, accepted |-> {}]
  /\ select = [cat |-> 500, value |-> "none", failed |-> FALSE,
               data |-> << >>]

Init ==
  /\ Boot
  /\ ToolIdle
  /\ storage = [id \in SetIds |-> "null"]
  /\ storageThrows = FALSE

Next ==
  \/ \E id \in MenuSets : EnterSetClick(id)
  \/ \E o \in Outcomes : LoadSettle(o)
  \/ BackClick
  \/ \E d \in {-1, 1} : Popstate(d)
  \/ \E id \in LeetSets : DirectClick(id)
  \/ \E id \in LeetSets, o \in Outcomes, f \in BOOLEAN : DirectSettle(id, o, f)
  \/ \E i \in 0..5 : SwitchClick(i)
  \/ Reload
  \/ \E c \in Categories, d \in Difficulties : PickClick(c, d)
  \/ \E id \in LeetSets, o \in Outcomes : CacheSettle(id, o)
  \/ PickRebuilt
  \/ PickSettle

Spec == Init /\ [][Next]_vars

\* texts found under the keys of sessionStorage when the page opens: no
\* value, an index (beyond the one-item documents), text that is no number
StoredTexts == {"null", "1", "abc"}

\* the page opens in a tab whose sessionStorage holds a text left from
\* before, or refuses access
InitStore ==
  /\ Boot
  /\ ToolIdle
  /\ \E v \in StoredTexts : storage = [id \in SetIds |-> v]
  /\ storageThrows \in BOOLEAN
  /\ storageThrows => storage["algo1"] = "1"

\* the handlers that read or write sessionStorage and the steps that lead
\* to them
NextStore ==
  \/ \E id \in MenuSets : EnterSetClick(id)
  \/ \E o \in Outcomes : LoadSettle(o)
  \/ BackClick
  \/ \E id \in LeetSets : DirectClick(id)
  \/ \E id \in LeetSets, o \in Outcomes, f \in BOOLEAN : DirectSettle(id, o, f)
  \/ \E i \in 0..5 : SwitchClick(i)
  \/ Reload
  \/ PickClick(500, "none")
  \/ \E id \in LeetSets, o \in Outcomes : CacheSettle(id, o)
  \/ PickRebuilt
  \/ PickSettle

SpecStore == InitStore /\ [][NextStore]_vars

\* the page opens in a tab whose sessionStorage holds index 1 for every set
\* and throws on every access
InitThrows ==
  /\ Boot
  /\ ToolIdle
  /\ storage = [id \in SetIds |-> "1"]
  /\ storageThrows = TRUE

SpecThrows == InitThrows /\ [][Next]_vars

\* values of the category select: two difficulties, one, no problem at all
PickCategories == {500, 600, 900}

\* the page opened on the main menu
InitPicker == Init /\ getSetId(url) = NoSet

\* the random picker alone, with every option of its two selects
NextPicker ==
  \/ \E c \in PickCategories, d \in SeqRange(DefaultOptions) : PickClick(c, d)
  \/ \E id \in LeetSets, o \in Outcomes : CacheSettle(id, o)
  \/ PickRebuilt
  \/ PickSettle

SpecPicker == InitPicker /\ [][NextPicker]_vars

\* the router alone; Popstate(0) is the listener called once more for the
\* entry the browser is on
NextAgain ==
  \/ \E id \in MenuSets : EnterSetClick(id)
  \/ \E o \in Outcomes : LoadSettle(o)
  \/ BackClick
  \/ \E d \in {-1, 0, 1} : Popstate(d)
  \/ \E i \in 0..5 : SwitchClick(i)

SpecAgain == Init /\ [][NextAgain]_vars

\* the run button, with the handlers that set the problem it judges and
\* write to #output
NextRun ==
  \/ RunClick
  \/ RunTick
  \/ \E ok \in BOOLEAN : RunHeaders(ok)
  \/ \E body \in RunBodies : RunBody(body)
  \/ RunFail
  \/ RunTimeout
  \/ \E id \in MenuSets : EnterSetClick(id)
  \/ \E o \in Outcomes : LoadSettle(o)
  \/ \E i \in 0..5 : SwitchClick(i)
  \/ BackClick

\* a timeout that is armed fires unless it is cleared first
SpecRun == Init /\ [][NextRun]_vars /\ WF_vars(RunTimeout)

\* the page opens in a document with or without the element #mainMenu
InitLoad ==
  /\ \E m \in {Main, NoMenuEl} : BootPage(m)
  /\ ToolIdle
  /\ storage = [id \in SetIds |-> "null"]
  /\ storageThrows = FALSE

\* the router and the reload; Popstate(0) is the listener called once more
\* for the entry the browser is on
NextLoad ==
  \/ \E id \in MenuSets : EnterSetClick(id)
  \/ \E o \in Outcomes : LoadSettle(o)
  \/ BackClick
  \/ \E d \in {-1, 0, 1} : Popstate(d)
  \/ \E i \in 0..5 : SwitchClick(i)
  \/ Reload

\* the fetch of a loadSet call settles: its promise is fulfilled or rejected
SpecLoad ==
  InitLoad /\ [][NextLoad]_vars /\ WF_vars(\E o \in Outcomes : LoadSettle(o))

\* saveCur(id, i) alone, for every set and every index that has a text in
\* Digits
SaveCur(id, i) ==
  /\ storage' = saveCur(storage, storageThrows, id, i)
  /\ UNCHANGED <<url, hist, hpos, isLoading, loadTask, loadBy, currentDataId,
                 currentPracticeIdx, lastSetId, lastData, menu, backBtn,
                 preview, output, shown, storageThrows, directTasks, setCache,
                 leetSetsMemo, pickTasks, diffOptions, fetchCount, returned,
                 latest, actions>>
  /\ UNCHANGED <<run, indexed, select, chat>>

\* the page is on its main menu; sessionStorage is available and holds, for
\* every set, no value, an index or a text that is no number
InitSave ==
  /\ Boot
  /\ ToolIdle
  /\ getSetId(url) = NoSet
  /\ \E v \in StoredTexts : storage = [id \in SetIds |-> v]
  /\ storageThrows = FALSE

NextSave == \E id \in SetIds, i \in 0..(Len(Digits) - 1) : SaveCur(id, i)

SpecSave == InitSave /\ [][NextSave]_vars

\* the AI chat alone, on the page opened at its main menu
NextChat ==
  \/ ChatSend
  \/ \E n \in 1..MaxActions, kind \in ReplyKinds : ChatReply(n, kind)
  \/ \E n \in 1..MaxActions : ChatTyped(n)

SpecChat == InitPicker /\ [][NextChat]_vars

\* the page is on its main menu, the selects are as the HTML sets them, and
\* the sets the picker loads hold one of the lists of problems
InitSelect ==
  /\ Boot
  /\ getSetId(url) = NoSet
  /\ storage = [id \in SetIds |-> "null"]
  /\ storageThrows = FALSE
  /\ indexed = [tag |-> NoTag, unit |-> NoUnit, accepted |-> {}]
  /\ \E data \in DataLists :
       select = [cat |-> 500, value |-> "none", failed |-> FALSE,
                 data |-> data]

\* the two selects of the picker
NextSelect ==
  \/ \E c \in {500, 600} : ChangeCategory(c)
  \/ \E v \in SeqRange(DefaultOptions) : ChooseDifficulty(v)

SpecSelect == InitSelect /\ [][NextSelect]_vars

\* the index builder is given a file with a tag in 0..MaxTag; the page is
\* on its main menu
InitIndex ==
  /\ Boot
  /\ getSetId(url) = NoSet
  /\ storage = [id \in SetIds |-> "null"]
  /\ storageThrows = FALSE
  /\ \E t \in 0..MaxTag :
       indexed = [tag |-> t, unit |-> NoUnit, accepted |-> {}]
  /\ select = [cat |-> 500, value |-> "none", failed |-> FALSE,
               data |-> << >>]

NextIndex == BuildItem \/ FilterTag

SpecIndex == InitIndex /\ [][NextIndex]_vars

TypeOK ==
  /\ url \in SetIds \cup {NoSet}
  /\ hpos \in 1..Len(hist)
  /\ actions \in 0..MaxActions
  /\ isLoading \in BOOLEAN
  /\ currentPracticeIdx \in 0..5
  /\ menu \in SetIds \cup {Main, NoMenuEl}

----------------------------------------------------------------------------
(* Claims *)

\* a step in which loadAllSets calls loadSetJSON for the sets of the memo
LoadsStep == (\E c \in Categories, d \in Difficulties : PickClick(c, d))
             \/ PickRebuilt

\* C1: however many times loadSetJSON(id) is called on a page, while the
\* first call is pending or after it has resolved, one fetch is issued for
\* id and every call returns the same promise.
C1_SingleFetch ==
  \A id \in LeetSets :
    setCache[id].st \in {"pending", "fulfilled"}
    => fetchCount[id] = 1 /\ returned[id] = {setCache[id].p}

\* C1 witness: two pickAndRender calls loaded leetcode1 while its fetch was
\* pending, and the first one loaded it again after it had resolved.
C1_Witness ==
  /\ Len(pickTasks) = 2
  /\ pickTasks[1].stage = 2
  /\ pickTasks[2].stage = 1
  /\ setCache["leetcode1"].st = "fulfilled"
  /\ fetchCount["leetcode1"] = 1
  /\ returned["leetcode1"] = {1}

\* C2 (as claimed): a loadSetJSON(id) call that finds the promise of id
\* rejected issues a fresh fetch.
C2_RejectionNotCached ==
  [][\A id \in LeetSets :
       (LoadsStep /\ id \in SeqRange(leetSetsMemo')
          /\ setCache[id].st = "rejected")
       => fetchCount'[id] = fetchCount[id] + 1]_vars

\* C3 (as claimed): after enterSet(A), then enterSet(B) while A's fetch is
\* pending, once the fetches have resolved the applied state is B's.
C3_LatestEnterWins ==
  (latest.kind = "enterSet" /\ latest.result = "dropped"
     /\ latest.stale = "enterSet" /\ loadTask = NoSet)
  => /\ menu = latest.set
     /\ currentDataId = latest.set
     /\ lastSetId = latest.set

NavKinds == {"enterSet", "direct", "pick", "back", "popstate"}

\* a fetch started by a navigation action settles after a later navigation
\* action took effect
StaleSettle ==
  /\ latest.kind \in NavKinds
  /\ latest.result # "dropped"
  /\ \/ \E o \in Outcomes : LoadSettle(o) /\ ~FreshLoad /\ loadBy # "init"
     \/ \E id \in LeetSets, o \in Outcomes : DirectSettle(id, o, FALSE)
     \/ PickSettle /\ ~FreshPick(FirstReady)

\* C4 (as claimed): the result of a superseded navigation action is dropped;
\* it changes neither NavigationState nor the menu nor the back button.
C4_StaleDropped ==
  [][StaleSettle =>
       UNCHANGED <<currentDataId, currentPracticeIdx, menu, backBtn>>]_vars

\* a step that completes enterSet, leaveSet or switchProblem, or that
\* changes NavigationState on the running page
Mutation ==
  /\ ~Reload
  /\ \/ <<currentDataId, currentPracticeIdx>>' #
          <<currentDataId, currentPracticeIdx>>
     \/ BackClick
     \/ \E i \in 0..5 : SwitchClick(i)
     \/ LoadSettle("ok") /\ loadBy = "enterSet"

\* C5 (as claimed): after every such step the set parameter of the URL is
\* the setId of NavigationState (absent exactly when setId is null).
C5_UrlRoundTrip == [][Mutation => getSetId(url') = currentDataId']_vars

\* C6 (as claimed): the popstate handler leaves the history stack and the
\* position the traversal reached as they are.
C6_PopstateNoPush ==
  [][\A d \in {-1, 1} : Popstate(d) => hist' = hist /\ hpos' = hpos + d]_vars

\* C7 (as claimed): leaveSet clears the set parameter, pushes one entry with
\* the empty state object and resets NavigationState to {null, 0}.
C7_LeaveSet ==
  [][BackClick =>
       /\ getSetId(url') = NoSet
       /\ hist' = Append(SubSeq(hist, 1, hpos), Entry(NoSet, EmptyState))
       /\ hpos' = hpos + 1
       /\ currentDataId' = NoSet
       /\ currentPracticeIdx' = 0]_vars

\* C8 (as claimed): every enterSet(id) pushes one entry encoding id and
\* starts a load of id, also while another load is pending.
C8_EnterSetPushes ==
  [][\A id \in MenuSets :
       EnterSetClick(id) =>
         /\ hist' = Append(SubSeq(hist, 1, hpos), Entry(id, id))
         /\ hpos' = hpos + 1
         /\ getSetId(url') = id
         /\ loadTask' = id]_vars

\* set X of the URL of the last popstate is displayed at its persisted index
PopstateShown ==
  /\ menu = latest.set
  /\ currentDataId = latest.set
  /\ currentPracticeIdx = loadCur(storage, storageThrows, latest.set)

\* C9 (as claimed): after a popstate to a URL with set X, once no load is
\* pending and none failed, set X is displayed at its persisted index; a
\* popstate to a URL without set returns to the menu view.
C9_PopstateDisplays ==
  [][/\ (latest'.kind = "popstate" /\ latest'.set # NoSet
          /\ loadTask' = NoSet /\ latest'.result # "failed"
          /\ latest'.stale # "failed" /\ latest'.sw = NoSw)
        => PopstateShown'
     /\ \A d \in {-1, 1} :
          (Popstate(d) /\ getSetId(url') = NoSet)
          => menu' = Main /\ shown' = Placeholder /\ ~backBtn']_vars

\* C10: switchProblem(S, i), then a reload with ?set=S whose fetch succeeds,
\* displays set S at index i.
C10_ReloadRestores ==
  (latest.kind = "init" /\ latest.expect # NoSw /\ latest.result = "ok"
     /\ latest.sw = NoSw /\ ~storageThrows)
  => /\ currentDataId = latest.expect.set
     /\ currentPracticeIdx = latest.expect.idx
     /\ shown = latest.expect
     /\ menu = latest.expect.set

\* C10 witness: the reload restored an index other than 0.
C10_Witness ==
  /\ latest.kind = "init"
  /\ latest.result = "ok"
  /\ latest.sw = NoSw
  /\ latest.expect.set = "algo1"
  /\ latest.expect.idx = 1
  /\ currentPracticeIdx = 1
  /\ getSetId(url) = "algo1"

\* C11: switching problem within the loaded set leaves the URL and the
\* history stack as they are; it displays the item clicked and stores its
\* index under the key of the set.
C11_SwitchNoHistory ==
  [][\A i \in 0..5 :
       SwitchClick(i) =>
         /\ url' = url /\ hist' = hist /\ hpos' = hpos
         /\ menu' = menu /\ backBtn' = backBtn /\ lastSetId' = lastSetId
         /\ currentPracticeIdx' = i
         /\ shown' = [set |-> menu, idx |-> i]
         /\ storage' = [storage EXCEPT ![menu] = StringOf(i)]]_vars

\* C11 witness: on the page opened at ?set=algo1 the third problem was
\* switched to and stored, and the history still has its one entry.
C11_Witness ==
  /\ latest.sw = [set |-> "algo1", idx |-> 2]
  /\ shown = [set |-> "algo1", idx |-> 2]
  /\ currentPracticeIdx = 2
  /\ storage["algo1"] = "2"
  /\ hist = <<Entry("algo1", NoSet)>>
  /\ getSetId(url) = "algo1"

\* the key of setId has no value, or a text that is no number, or
\* sessionStorage throws
NoStoredIndex(setId) ==
  storageThrows \/ storage[setId] = "null" \/ NumberOf(storage[setId]) = NaN

\* C12: loadCur(id) is 0 when nothing is stored for id, when the stored text
\* is no number and when sessionStorage throws, and the handler that called
\* it goes on: a set that loads is then shown at its first problem.
C12_LoadDefaults ==
  [][/\ \A id \in SetIds :
          NoStoredIndex(id) => loadCur(storage, storageThrows, id) = 0
     /\ (LoadSettle("ok") /\ NoStoredIndex(loadTask))
        => /\ currentDataId' = loadTask
           /\ currentPracticeIdx' = 0
           /\ shown' = [set |-> loadTask, idx |-> 0]
           /\ output' = ""
     /\ \A id \in LeetSets, f \in BOOLEAN :
          (DirectSettle(id, "ok", f) /\ NoStoredIndex(id))
          => /\ currentDataId' = id
             /\ currentPracticeIdx' = 0
             /\ output' = ""]_vars

\* C12 witness: sessionStorage throws while it holds index 1 for algo1, and
\* the page opened at ?set=algo1 shows the first problem.
C12_Witness ==
  /\ storageThrows
  /\ storage["algo1"] = "1"
  /\ latest.kind = "init"
  /\ latest.result = "ok"
  /\ currentDataId = "algo1"
  /\ currentPracticeIdx = 0
  /\ shown = [set |-> "algo1", idx |-> 0]

\* the sets of a pickAndRender call whose promise has the state st
SetsIn(t, st) == {id \in SeqRange(t.sets) : setCache[id].st = st}

\* the problems (set, index) of the sets ids in category cat and, unless
\* diff is "none", of difficulty diff whatever the case of the letters
Candidates(ids, cat, diff) ==
  {c \in UNION {{[set |-> id, idx |-> i - 1] : i \in 1..Len(Doc(id))} :
                  id \in ids} :
     LET q == Doc(c.set)[c.idx + 1]
     IN /\ (q.tag \div 100) * 100 = cat
        /\ diff = "none" \/ Lower(q.difficult) = Lower(diff)}

\* C13 (as claimed): when some sets of the list failed to load and the
\* others loaded, the pick succeeds with a candidate of a set that loaded.
C13_PartialTolerated ==
  [][(/\ PickSettle
      /\ LET t == pickTasks[FirstReady]
         IN /\ SetsIn(t, "pending") = {}
            /\ SetsIn(t, "rejected") # {}
            /\ Candidates(SetsIn(t, "fulfilled"), t.cat, t.diff) # {})
     => LET t == pickTasks[FirstReady]
        IN /\ output' = ""
           /\ shown' \in Candidates(SetsIn(t, "fulfilled"), t.cat, t.diff)]_vars

\* every set of the pickAndRender call has loaded
AllLoaded(t) == SetsIn(t, "fulfilled") = SeqRange(t.sets)

\* the pool pickAndRender builds for the call t, as (set, index) pairs
PoolPairs(t) ==
  LET pool == Pool(t.cat, t.diff, t.sets)
  IN {[set |-> pool[k].setId, idx |-> pool[k].idx] : k \in 1..Len(pool)}

\* C14: once every set has loaded, the pool of pickAndRender is the set of
\* problems whose tag rounds down to the category and whose difficulty is the
\* effective one (any, when that is "none"); the problem shown by a pick is
\* one of them.
C14_PoolIsFilter ==
  [][PickSettle =>
       LET t == pickTasks[FirstReady]
           cands == Candidates(SeqRange(t.sets), t.cat, t.diff)
       IN AllLoaded(t) =>
            /\ PoolPairs(t) = cands
            /\ output' = "" => shown' \in cands
            /\ cands # {} => output' = ""]_vars

\* C14 witness: with difficulty Easy chosen in category 500, whose problems
\* are Easy and Medium, the Easy one was picked.
C14_Witness ==
  /\ latest.kind = "pick"
  /\ latest.result = "ok"
  /\ output = ""
  /\ diffOptions = <<"none", "Easy", "Medium">>
  /\ shown = [set |-> "leetcode1", idx |-> 0]
  /\ storage["leetcode1"] = "0"

C16_AnyNeedsTwo ==
  [][PickRebuilt =>
       LET t == pickTasks[FirstReady]
           n == Cardinality(getAvailableDiffsForUnit(t.cat, t.sets))
       IN (t.sets # << >> /\ AllLoaded(t)) =>
            /\ "none" \in SeqRange(diffOptions') => n >= 2
            /\ n < 2 => Len(diffOptions') = 1]_vars

\* fetches of the document of set id that are in flight
Outstanding(id) ==
  (IF loadTask = id THEN 1 ELSE 0)
  + (IF id \in LeetSets
     THEN directTasks[id] + (IF setCache[id].st = "pending" THEN 1 ELSE 0)
     ELSE 0)

\* the document of set id has been loaded on this page
AlreadyLoaded(id) ==
  \/ lastData = id
  \/ shown.set = id
  \/ id \in LeetSets /\ setCache[id].st = "fulfilled"

\* C17 (as claimed): on a page at most one fetch is in flight per set,
\* whichever of loadSet, the direct open and the picker started it, and no
\* fetch is started for a set that has loaded.
C17_AllLoadsCached ==
  [][~Reload =>
       \A id \in SetIds :
         /\ Outstanding(id)' <= 1
         /\ AlreadyLoaded(id) => Outstanding(id)' <= Outstanding(id)]_vars

\* C18: currentPracticeIdx is an index of an item of the set currentDataId
\* names, and 0 while currentDataId is null.
C18_IndexValid ==
  IF currentDataId = NoSet
  THEN currentPracticeIdx = 0
  ELSE HasItem(currentDataId, currentPracticeIdx)

\* C18 witness: algo2, which has one problem, loaded while index 1 was
\* stored for it: its sub-menu is displayed and NavigationState is as before.
C18_Witness ==
  /\ ~storageThrows
  /\ storage["algo2"] = "1"
  /\ menu = "algo2"
  /\ lastData = "algo2"
  /\ latest.kind = "enterSet"
  /\ latest.result = "ok"
  /\ currentDataId = NoSet
  /\ currentPracticeIdx = 0

\* the state of the facade, read from the view: the sub-menu of a set is
\* displayed, or the main menu with a problem, or the main menu with the
\* placeholder
Facade ==
  IF menu # Main THEN "SetOpen"
  ELSE IF shown # Placeholder THEN "SingleProblem"
  ELSE "Menu"

\* a step along one of the listed transitions
Listed ==
  \/ /\ Facade = "Menu" /\ Facade' = "SetOpen"
     /\ LoadSettle("ok") /\ loadBy = "enterSet"
  \/ /\ Facade = "Menu" /\ Facade' = "SingleProblem"
     /\ \/ \E id \in LeetSets, f \in BOOLEAN : DirectSettle(id, "ok", f)
        \/ PickSettle
  \/ /\ Facade \in {"SetOpen", "SingleProblem"} /\ Facade' = "Menu"
     /\ BackClick
  \/ /\ \E d \in {-1, 1} : Popstate(d)
     /\ getSetId(url') = NoSet /\ Facade' = "Menu"
  \/ /\ LoadSettle("ok") /\ loadBy \in {"popstate", "init"}
     /\ Facade' = "SetOpen" /\ menu' = getSetId(url')

\* C19 (as claimed): on a page the facade changes state only along the
\* listed transitions, and a back action ends in Menu.
C19_FacadeTransitions ==
  [][~Reload =>
       /\ Facade' # Facade => Listed
       /\ BackClick => Facade' = "Menu"]_vars

\* C20: a loadSet whose fetch fails, by the network, the status or the
\* document, ends with the failure message, leaves view, NavigationState and
\* history as they are, starts no fetch and clears isLoading; the enterSet
\* that follows a failed enterSet pushes its entry and starts its load.
C20_LoadFailure ==
  [][/\ \A o \in Outcomes \ {"ok"} :
          LoadSettle(o) =>
            /\ output' = "load_failed"
            /\ ~isLoading'
            /\ \A id \in SetIds :
                 Outstanding(id)' =
                   Outstanding(id) - (IF id = loadTask THEN 1 ELSE 0)
            /\ UNCHANGED <<menu, shown, currentDataId, currentPracticeIdx,
                           url, hist, hpos>>
     /\ \A id \in MenuSets :
          (EnterSetClick(id) /\ latest.kind = "enterSet"
             /\ latest.result = "failed")
          => /\ loadTask' = id
             /\ getSetId(url') = id
             /\ hist' = pushState(hist, hpos, id, id)
             /\ output' = "loading"]_vars

\* C20 witness: the load of algo1 failed and left the main menu; then
\* enterSet(algo2) pushed its entry and its load is in flight.
C20_Witness ==
  /\ hist = <<Entry(NoSet, NoSet), Entry("algo1", "algo1"),
              Entry("algo2", "algo2")>>
  /\ hpos = 3
  /\ menu = Main
  /\ lastData = NoSet
  /\ loadTask = "algo2"
  /\ latest.kind = "enterSet"
  /\ latest.result = "pending"
  /\ output = "loading"

\* C21: with sessionStorage throwing on every access, a set that loads is
\* listed and displayed at index 0, a switch displays the item clicked, a
\* pick with candidates displays one of them, the popstate handler starts
\* its load or returns to the menu, and no handler ends with another
\* message than its own.
C21_StorageUnavailable ==
  [][storageThrows =>
       /\ storage' = storage
       /\ (loadTask # NoSet /\ loadTask' = NoSet /\ LoadSettle("ok")) =>
            /\ menu' = loadTask
            /\ currentDataId' = loadTask
            /\ currentPracticeIdx' = 0
            /\ shown' = [set |-> loadTask, idx |-> 0]
            /\ output' = ""
       /\ \A i \in 0..5 :
            (actions' # actions /\ latest'.sw.idx = i /\ SwitchClick(i)) =>
              /\ currentPracticeIdx' = i
              /\ shown' = [set |-> menu, idx |-> i]
              /\ output' = output
       /\ (Len(pickTasks') < Len(pickTasks) /\ PickSettle) =>
            LET t == pickTasks[FirstReady]
                cands == Candidates(SeqRange(t.sets), t.cat, t.diff)
            IN (AllLoaded(t) /\ cands # {}) =>
                 /\ shown' \in cands
                 /\ currentDataId' = shown'.set
                 /\ currentPracticeIdx' = shown'.idx
                 /\ output' = ""
       /\ \A d \in {-1, 1} :
            (actions' # actions /\ latest'.kind = "popstate" /\ Popstate(d)) =>
              IF getSetId(url') = NoSet
              THEN menu' = Main /\ output' = ""
              ELSE isLoading' /\ (~isLoading => loadTask' = getSetId(url'))
       /\ output' \in {"", "loading", "load_failed", "picking", "no_list",
                        "pick_failed", "no_candidates"}]_vars

\* C21 witness: with sessionStorage throwing, algo1 was entered and its
\* third problem switched to; nothing was stored.
C21_Witness ==
  /\ storageThrows
  /\ storage["algo1"] = "1"
  /\ menu = "algo1"
  /\ latest.kind = "enterSet"
  /\ latest.result = "ok"
  /\ latest.sw = [set |-> "algo1", idx |-> 2]
  /\ currentPracticeIdx = 2
  /\ output = ""

\* problem i of set s is open as a single problem: NavigationState names
\* it, it is shown with the preview, the back button is hidden, no message
\* is left and the progress read for s is i
SingleOpen(s, i) ==
  /\ currentDataId = s
  /\ currentPracticeIdx = i
  /\ shown = [set |-> s, idx |-> i]
  /\ ~backBtn
  /\ preview
  /\ output = ""
  /\ loadCur(storage, storageThrows, s) = i

\* C22: a pick that shows problem i of set s and a direct open of s, which
\* opens the problem i that loadCur(s) names, both end with problem i of s
\* open as a single problem, and leave URL, history stack, menu and last
\* loaded set as they are.
C22_PickLikeDirect ==
  [][/\ \A s \in {shown'.set}, i \in {shown'.idx} :
          (Len(pickTasks') < Len(pickTasks) /\ output' = "" /\ PickSettle)
          => /\ s \in LeetSets
             /\ SingleOpen(s, i)'
             /\ UNCHANGED <<url, hist, hpos, menu, lastSetId, lastData>>
     /\ \A s \in LeetSets : \A i \in {loadCur(storage, storageThrows, s)} :
          (directTasks'[s] < directTasks[s] /\ HasItem(s, i)
             /\ \E f \in BOOLEAN : DirectSettle(s, "ok", f))
          => /\ SingleOpen(s, i)'
             /\ UNCHANGED <<url, hist, hpos, menu, lastSetId, lastData,
                            storage>>]_vars

\* C22 witness: the pick showed the second problem of leetcode1 and stored
\* its index; the page still has its first history entry.
C22_Witness ==
  /\ latest.kind = "pick"
  /\ latest.result = "ok"
  /\ SingleOpen("leetcode1", 1)
  /\ storage["leetcode1"] = "1"
  /\ Len(hist) = 1
  /\ getSetId(url) = NoSet

\* the last step was the popstate listener and nothing has settled since
JustHandled ==
  /\ latest.kind = "popstate"
  /\ latest.result \in {"done", "pending", "dropped"}
  /\ latest.stale = "none"
  /\ latest.sw = NoSw

\* C23 (as claimed): the popstate listener, run a second time right after
\* it has run, leaves NavigationState, the view, the URL and the history
\* stack as the first run left them.
C23_PopstateIdempotent ==
  [][(JustHandled /\ Popstate(0))
       => UNCHANGED <<currentDataId, currentPracticeIdx, menu, shown, backBtn,
                      preview, output, url, hist, hpos>>]_vars

\* no element occurs twice in the sequence
NoRepeat(seq) == \A i, j \in 1..Len(seq) : seq[i] = seq[j] => i = j

\* C24: the relaxation of pickAndRender changes nothing: the pool after it
\* is the pool of the first scan, no candidate occurs twice, and a pick
\* ends as it would without the relaxation (no-candidates message when the
\* first scan is empty, a problem of the first scan otherwise).
C24_RelaxationIdempotent ==
  [][PickSettle =>
       LET t == pickTasks[FirstReady]
           first == FirstPool(t.cat, t.diff, t.sets)
       IN /\ Pool(t.cat, t.diff, t.sets) = first
          /\ NoRepeat(Pool(t.cat, t.diff, t.sets))
          /\ AllLoaded(t) =>
               IF first = << >>
               THEN output' = "no_candidates" /\ shown' = shown
               ELSE \E k \in 1..Len(first) :
                      shown' = [set |-> first[k].setId, idx |-> first[k].idx]]_vars

\* C24 witness: a single pick with "none" chosen in category 900, for which
\* the first scan finds nothing and the select keeps its four options,
\* ended with the no-candidates message.
C24_Witness ==
  /\ actions = 1
  /\ pickTasks = << >>
  /\ latest.kind = "pick"
  /\ latest.result = "failed"
  /\ output = "no_candidates"
  /\ diffOptions = DefaultOptions
  /\ FirstPool(900, "none", leetSetsMemo) = << >>
  /\ leetSetsMemo # << >>

\* C25: a response with a missing or empty item list is never accepted: the
\* promise of the cache is rejected, loadSet records no last loaded set and
\* reports the failure, and a direct open shows nothing; every set the
\* cache holds as resolved and the last loaded set have items.
C25_EmptyNeverAccepted ==
  [][/\ \A id \in LeetSets :
          /\ (setCache'[id] # setCache[id] /\ setCache[id].st = "pending")
             => \A o \in Outcomes :
                  (Len(Served(id, o)) = 0 /\ CacheSettle(id, o))
                  => setCache'[id].st = "rejected"
          /\ (directTasks'[id] < directTasks[id])
             => \A o \in Outcomes :
                  (Len(Served(id, o)) = 0
                     /\ \E f \in BOOLEAN : DirectSettle(id, o, f))
                  => /\ output' = "load_failed"
                     /\ UNCHANGED <<currentDataId, currentPracticeIdx,
                                    shown>>
          /\ setCache'[id].st = "fulfilled" => Len(Doc(id)) > 0
     /\ \A id \in {loadTask} :
          (id # NoSet /\ loadTask' = NoSet)
          => \A o \in Outcomes :
               (Len(Served(id, o)) = 0 /\ LoadSettle(o))
               => /\ output' = "load_failed"
                  /\ UNCHANGED <<lastSetId, lastData, menu, currentDataId,
                                 currentPracticeIdx, shown>>
     /\ lastSetId' # NoSet => lastData' = lastSetId' /\ Len(Doc(lastData')) > 0]_vars

\* C25 witness: entering algo1 got a response whose item list is missing or
\* empty, and the promise of leetcode1 was rejected; no set is recorded as
\* loaded.
C25_Witness ==
  /\ latest.kind = "enterSet"
  /\ latest.set = "algo1"
  /\ latest.result = "failed"
  /\ output = "load_failed"
  /\ lastSetId = NoSet
  /\ lastData = NoSet
  /\ setCache["leetcode1"].st = "rejected"

\* C26: a judge request that was started ends: while it is pending the
\* timeout is armed, the timeout firing aborts it with the timeout message,
\* and whenever no request is pending the timeout and the progress ticker
\* are cleared and the run button is enabled.
C26_RunTerminates ==
  /\ [](run.phase # "idle" => run.timer /\ run.tick /\ run.disabled)
  /\ [](run.phase = "idle" => ~run.timer /\ ~run.tick /\ ~run.disabled)
  /\ [][RunTimeout => run'.phase = "idle" /\ output' = "judge_timeout"]_vars
  /\ [][\A body \in RunBodies : RunBody(body) => run'.phase = "idle"]_vars
  /\ [][RunFail => run'.phase = "idle" /\ output' = "judge_exception"]_vars
  /\ (run.phase # "idle") ~> (run.phase = "idle")

\* C26 witness: a request for algo1 got no answer and was aborted by the
\* timeout; the button is enabled again.
C26_Witness ==
  /\ RunDataId = "algo1"
  /\ output = "judge_timeout"
  /\ run = RunIdle

\* pickAndRender is about to pick from the non-empty pool of its call
PickReady ==
  /\ ~NoMicrotask
  /\ pickTasks[FirstReady].stage = 2
  /\ AllLoaded(pickTasks[FirstReady])
  /\ Pool(pickTasks[FirstReady].cat, pickTasks[FirstReady].diff,
          pickTasks[FirstReady].sets) # << >>

\* C27: the index of the pick ranges over the whole pool: every candidate
\* of a non-empty pool can be the one shown, the indexes Math.floor yields
\* are exactly those of the pool, and what a pick shows is in the pool.
C27_IndexCoversPool ==
  /\ [](PickReady =>
         LET t == pickTasks[FirstReady]
             len == Len(Pool(t.cat, t.diff, t.sets))
         IN /\ {PickIndex(j, len) : j \in 0..(RandomSteps - 1)} = 0..(len - 1)
            /\ \A c \in PoolPairs(t) : ENABLED (PickSettle /\ shown' = c))
  /\ [][(PickReady /\ PickSettle)
         => output' = "" /\ shown' \in PoolPairs(pickTasks[FirstReady])]_vars

\* C27 witness: the pick showed the second entry of the pool of category
\* 500 with any difficulty, the Medium problem.
C27_Witness ==
  /\ latest.kind = "pick"
  /\ latest.result = "ok"
  /\ output = ""
  /\ Len(Pool(500, "none", leetSetsMemo)) = 2
  /\ shown.set = Pool(500, "none", leetSetsMemo)[2].setId
  /\ shown.idx = Pool(500, "none", leetSetsMemo)[2].idx
  /\ Doc(shown.set)[shown.idx + 1].difficult = "Medium"

\* C28: for a tag t the bucket b = floor(t / 100) * 100 is a multiple of 100
\* with b <= t < b + 100, the unit of the index builder times 100 is b, and
\* the one category whose filter accepts t is b; tag 512 is in bucket 500.
C28_BucketDiv100 ==
  /\ Bucket(512) = 500
  /\ indexed.tag # NoTag =>
       LET t == indexed.tag
           b == Bucket(t)
       IN /\ b % 100 = 0
          /\ b <= t
          /\ t < b + 100
          /\ indexed.unit # NoUnit => indexed.unit * 100 = b
          /\ indexed.accepted # {} => indexed.accepted = {b}
          /\ (indexed.unit # NoUnit /\ indexed.accepted # {})
             => indexed.accepted = {indexed.unit * 100}

\* C28 witness: tag 512 has been given unit 5 and is accepted by the filter
\* of category 500 alone.
C28_Witness ==
  /\ indexed = [tag |-> 512, unit |-> 5, accepted |-> {500}]

\* the difficulties, in lower case, of the problems of category cat in sets
DiffsIn(cat, sets) ==
  UNION {{Lower(Doc(id)[k].difficult) :
            k \in {n \in 1..Len(Doc(id)) :
                     (Doc(id)[n].tag \div 100) * 100 = cat}} :
           id \in SeqRange(sets)}

\* the first of easy, medium, hard that is in the set
FirstOf(present) ==
  IF "easy" \in present THEN "easy"
  ELSE IF "medium" \in present THEN "medium" ELSE "hard"

\* C29: when the select is rebuilt for a category whose sets have loaded,
\* with two or more difficulties present a previous value that is present is
\* kept, a previous "none" stays "none", and any other previous value gives
\* way to the first present of easy, medium, hard; with one difficulty
\* present that one is selected.  The pick continues with the value of the
\* select after the rebuild, and shows a problem of that difficulty.
C29_RebuildSelection ==
  [][/\ \A i \in 1..MaxActions :
          (PickRebuilt /\ i = FirstReady /\ AllLoaded(pickTasks[i])
             /\ Len(pickTasks') = Len(pickTasks))
          => LET t == pickTasks[i]
                 prev == Lower(t.diff)
                 present == DiffsIn(t.cat, t.sets)
                 value == pickTasks'[i].diff
             IN /\ pickTasks'[i].stage = 2
                /\ value \in SeqRange(diffOptions') \/ present = {}
                /\ Cardinality(present) >= 2 =>
                     /\ prev \in present => Lower(value) = prev
                     /\ prev = "none" => value = "none"
                     /\ prev \notin present \cup {"none"}
                        => Lower(value) = FirstOf(present)
                /\ Cardinality(present) = 1 => {Lower(value)} = present
     /\ (PickSettle /\ output' = "")
        => LET t == pickTasks[FirstReady]
           IN t.diff = "none"
              \/ Lower(Doc(shown'.set)[shown'.idx + 1].difficult)
                 = Lower(t.diff)]_vars

\* C29 witness: the select was rebuilt for category 600, whose only
\* difficulty is Hard; it offers Hard alone and the pick showed the Hard
\* problem.
C29_Witness ==
  /\ actions = 1
  /\ latest.kind = "pick"
  /\ latest.result = "ok"
  /\ diffOptions = <<"Hard">>
  /\ DiffsIn(600, leetSetsMemo) = {"hard"}
  /\ shown = [set |-> "leetcode2", idx |-> 0]
  /\ output = ""

\* the scan of the DOM finds no leetcode set, but an earlier scan found some
ScanEmptyMemoKept == collectAllLeetSets(menu) = << >> /\ leetSetsMemo # << >>

\* neither the scan nor an earlier scan found a leetcode set
NoListEver == collectAllLeetSets(menu) = << >> /\ leetSetsMemo = << >>

\* C30: when the scan finds no leetcode set and the memo holds a list,
\* loadAllSets loads the sets of the memo, keeps the memo, and the pick goes
\* on to its pool; only when scan and memo are both empty does pickAndRender
\* end with the no-list message, and then nothing but #output and the
\* select changes.
C30_MemoKeepsPick ==
  [][/\ \A c \in Categories, d \in Difficulties, memo \in {leetSetsMemo} :
          (ScanEmptyMemoKept /\ Len(pickTasks') > Len(pickTasks)
             /\ PickClick(c, d))
          => /\ leetSetsMemo' = memo
             /\ pickTasks'[Len(pickTasks')].sets = memo
             /\ \A id \in SeqRange(memo) : setCache'[id].st # "absent"
     /\ \A memo \in {leetSetsMemo}, n \in {Len(pickTasks)} :
          (ScanEmptyMemoKept /\ pickTasks # << >> /\ PickRebuilt)
          => /\ leetSetsMemo' = memo
             /\ Len(pickTasks') = n
             /\ output' # "no_list"
             /\ \E i \in 1..n : /\ pickTasks'[i].stage = 2
                                 /\ pickTasks[i].stage = 1
                                 /\ pickTasks'[i].sets = memo
     /\ (pickTasks # << >> /\ actions' = actions /\ PickRebuilt)
        => /\ (output' = "no_list") = NoListEver
           /\ NoListEver
              => UNCHANGED <<url, hist, hpos, isLoading, loadTask,
                             currentDataId, currentPracticeIdx, lastSetId,
                             lastData, menu, backBtn, preview, shown, storage,
                             setCache, leetSetsMemo, fetchCount>>
     /\ (menu # Main /\ Len(pickTasks') < Len(pickTasks) /\ PickSettle
          /\ AllLoaded(pickTasks[FirstReady])
          /\ PoolPairs(pickTasks[FirstReady]) # {})
        => output' = "" /\ shown' \in PoolPairs(pickTasks[FirstReady])]_vars

\* C30 witness: with the sub-menu of algo1 in place of the main menu, a
\* pick loaded the sets remembered from the main menu and showed a problem.
C30_Witness ==
  /\ menu = "algo1"
  /\ collectAllLeetSets(menu) = << >>
  /\ leetSetsMemo = LeetOrder
  /\ latest.kind = "pick"
  /\ latest.result = "ok"
  /\ output = ""
  /\ shown.set \in LeetSets
  /\ pickTasks = << >>

----------------------------------------------------------------------------
\* C31: whenever #mainMenu lists the problems of a set (the sub-menu), the
\* back-to-menu button is displayed, after any sequence of enterSet, switch,
\* random pick, direct open and popstate.
C31_BackBtnWithSubMenu == menu \in SetIds => backBtn

----------------------------------------------------------------------------
\* the step calls loadSet while another loadSet call is in flight
ReentrantCall ==
  /\ isLoading
  /\ actions' # actions
  /\ latest'.result = "dropped"
  /\ \/ \E id \in MenuSets : EnterSetClick(id)
     \/ \E d \in {-1, 1} : Popstate(d)

\* C32: a loadSet call made while another loadSet is in flight returns at
\* once and changes nothing: no history entry is pushed, no fetch is issued,
\* and the menu, the current problem, the last loaded set, the loading flag
\* and the status text are as before; a click that only makes this call
\* leaves the location and the whole view as they were.
C32_LoadSetNotReentrant ==
  [][ReentrantCall
       => /\ UNCHANGED <<hist, isLoading, loadTask, loadBy, directTasks,
                         fetchCount, menu, currentDataId, currentPracticeIdx,
                         shown, lastSetId, lastData, output, storage>>
          /\ latest'.kind = "enterSet"
               => UNCHANGED <<url, hpos, backBtn, preview>>]_vars

\* a click on a set of the main menu has called loadSet during another load
C32_Witness ==
  /\ latest.kind = "enterSet"
  /\ latest.result = "dropped"
  /\ isLoading
  /\ loadTask # latest.set
  /\ Len(hist) = 1

----------------------------------------------------------------------------
\* C33: the loading flag is always released.  The flag is set exactly while
\* the fetch of a loadSet call is pending; the call that finds no menu
\* element returns with the flag reset; the rest of loadSet resets the flag
\* whether the load succeeded, the fetch failed or the validation failed;
\* so a flag that is set is eventually reset once the fetch settles, and
\* with no fetch pending a click on a set of the main menu starts its load.
C33_FlagReleased ==
  /\ [](isLoading <=> loadTask # NoSet)
  /\ [](menu = NoMenuEl => ~isLoading)
  /\ [][\A o \in Outcomes : LoadSettle(o) => ~isLoading']_vars
  /\ [][\A id \in MenuSets :
          (loadTask = NoSet /\ EnterSetClick(id))
          => isLoading' /\ loadTask' = id /\ url' = id]_vars
  /\ isLoading ~> ~isLoading

\* C33 witness: a load failed and released the flag, and the click on a set
\* that followed started its load.
C33_Witness ==
  /\ latest.kind = "enterSet"
  /\ latest.result = "pending"
  /\ output = "loading"
  /\ isLoading
  /\ lastSetId = NoSet
  /\ Len(hist) = 2
  /\ hist[1].url # NoSet

\* a loadSet call found no menu element and returned with the flag reset
NoMenuReturned ==
  /\ menu = NoMenuEl
  /\ latest.kind = "popstate"
  /\ latest.result = "dropped"
  /\ ~isLoading

----------------------------------------------------------------------------
\* C34: the last-loaded pair agrees with the sub-menu.  Whenever #mainMenu
\* lists the problems of set S, lastSetId is S and lastData is the document
\* fetched for S; a click on item i of the sub-menu shows item i of that
\* document under the id of S and stores i for S; a load that fails changes
\* neither the menu nor the last-loaded pair.
C34_LastLoadedConsistent ==
  /\ [](menu \in SetIds => lastSetId = menu /\ lastData = menu)
  /\ [][\A i \in 0..5 :
          (actions' # actions /\ menu \in SetIds /\ SwitchClick(i))
          => /\ shown' = [set |-> lastData, idx |-> i]
             /\ currentDataId' = lastSetId
             /\ currentPracticeIdx' = i
             /\ storage' = [storage EXCEPT ![lastSetId] = StringOf(i)]
             /\ UNCHANGED <<menu, lastSetId, lastData>>]_vars
  /\ [][\A o \in Outcomes :
          (loadTask # NoSet /\ loadTask' = NoSet
             /\ ~Accepted(loadTask, o) /\ LoadSettle(o))
          => UNCHANGED <<menu, lastSetId, lastData>>]_vars

\* C34 witness: problem 2 of algo1 was switched to in its sub-menu; after
\* the return to the main menu the load started by going back in the
\* history failed, and the pair still names algo1.
C34_Witness ==
  /\ latest.kind = "popstate"
  /\ latest.result = "failed"
  /\ output = "load_failed"
  /\ menu = Main
  /\ lastSetId = "algo1"
  /\ lastData = "algo1"
  /\ storage["algo1"] = "2"
  /\ currentPracticeIdx = 2

----------------------------------------------------------------------------
\* a step of pickAndRender that does not end in a rendered problem
FailingPickStep ==
  /\ pickTasks' # pickTasks
  /\ ~(Len(pickTasks') < Len(pickTasks) /\ output' = "")
  /\ \/ \E c \in Categories, d \in Difficulties : PickClick(c, d)
     \/ PickRebuilt
     \/ PickSettle

\* C35: a random pick that fails, for want of a set list, by a load
\* failure or for want of a candidate, leaves the current problem, the
\* stored index of every set, the URL and the history, the menu, the back
\* button and the problem shown as they were; outside the picker's own
\* select and cache it only writes the status text, which names the failure.
C35_FailedPickFrame ==
  [][FailingPickStep
       => /\ UNCHANGED <<currentDataId, currentPracticeIdx, storage, url,
                         hist, hpos, menu, backBtn, preview, shown,
                         lastSetId, lastData>>
          /\ Len(pickTasks') < Len(pickTasks)
               => output' \in {"no_list", "pick_failed", "no_candidates"}]_vars

\* C35 witness: on the sub-menu of algo1, with its problem 1 stored and
\* shown, a pick found no set list and said so.
C35_Witness ==
  /\ latest.kind = "pick"
  /\ latest.result = "failed"
  /\ output = "no_list"
  /\ menu = "algo1"
  /\ backBtn
  /\ currentDataId = "algo1"
  /\ currentPracticeIdx = 1
  /\ storage["algo1"] = "1"

----------------------------------------------------------------------------
\* C36 (as claimed): after rebuildDifficultySelect, whatever the loaded data
\* hold, the difficulty select has at least one option, its value is one of
\* its options, and the rebuild was not rejected.
C36_RebuildTotal ==
  /\ Len(diffOptions) >= 1
  /\ select.value \in SeqRange(diffOptions)
  /\ ~select.failed

----------------------------------------------------------------------------
\* C37 (as claimed): a judge request is only sent for the problem
\* displayed.  On the main menu with no problem shown and no set in the
\* URL, handleRun says that a problem must be selected first and sends no
\* request; with a problem displayed the request carries the set and the
\* index of that problem.
C37_RunForDisplayed ==
  [][RunClick
       => /\ (Facade = "Menu" /\ getSetId(url) = NoSet)
               => output' = "select_first" /\ run' = run
          /\ shown # Placeholder
               => run'.phase = "fetch" /\ run'.req = shown]_vars

----------------------------------------------------------------------------
\* C38: with sessionStorage available, loadCur(id) after saveCur(id, i) is
\* i, whatever was stored before (so the last save for an id wins), and
\* saveCur(id, i) leaves loadCur(j) as it was for every other set j.
C38_SaveLoadRoundTrip ==
  [][\A id \in SetIds, i \in 0..(Len(Digits) - 1) :
       SaveCur(id, i)
       => /\ loadCur(storage', storageThrows', id) = i
          /\ \A j \in SetIds \ {id} :
               loadCur(storage', storageThrows', j)
               = loadCur(storage, storageThrows, j)]_vars

\* C38 witness: 4 was saved for algo1 and is loaded again, while algo2
\* still holds the text that is no number and loads as 0, and leetcode1
\* loads the 2 saved for it.
C38_Witness ==
  /\ storage["algo1"] = "4"
  /\ loadCur(storage, storageThrows, "algo1") = 4
  /\ storage["algo2"] = "abc"
  /\ loadCur(storage, storageThrows, "algo2") = 0
  /\ loadCur(storage, storageThrows, "leetcode1") = 2
  /\ ~storageThrows

----------------------------------------------------------------------------
\* C39 (as claimed): in the AI chat at most one request is in flight, and
\* the history is in causal order: the reply to message n is appended
\* before message n + 1 is appended and sent, so no later user message is in
\* the history while the typewriter still renders the reply to message n,
\* and no reply stands after a later user message.
C39_ChatCausalOrder ==
  /\ Cardinality(chat.inflight) <= 1
  /\ \A k \in chat.typing :
       ~\E j \in 1..Len(chat.messages) :
          chat.messages[j].role = "user" /\ chat.messages[j].n > k
  /\ \A i \in 1..Len(chat.messages), j \in 1..Len(chat.messages) :
       (chat.messages[i].role = "assistant" /\ chat.messages[j].role = "user"
          /\ chat.messages[j].n > chat.messages[i].n)
       => i < j

====
